---- MODULE Spec2Model ----
(***************************************************************************)
(* Model of PyForks/trailforks_region.py: class TrailforksRegion.          *)
(*                                                                         *)
(* One behaviour is one invocation of download_all_region_trails or of     *)
(* download_all_region_ridelogs on a constructed object.  The remote site  *)
(* is the environment: every HTTP request is answered either by a          *)
(* transport failure or by a body drawn from a small set.                  *)
(*                                                                         *)
(* Text is a sequence of one-character strings; a Python value that may be *)
(* None is <<>> (None) or <<v>>; the result of a call that may raise is    *)
(* Raise(e) or Return(v).                                                  *)
(***************************************************************************)
EXTENDS Integers, Sequences, FiniteSets, TLC

\* ------------------------------------------------------------- bounds
MaxTextLen == 3     \* longest raw export text served
MaxTables  == 2     \* most tables on one ride-log page
MaxRows    == 1     \* most rows of one table
MaxItems   == 5     \* most <li> items in the statistics container

\* rows assumed per ride-log page (the literal 30 of total_pages)
PageSize == 30

VARIABLES
    region,           \* self.region
    op,               \* the method invoked: "none", "trails", "ridelogs"
    pc,               \* position inside the invoked method
    status,           \* "running", "returned", "exited", "raised"
    exit_code,        \* process exit status once status = "exited"
    error,            \* exception that left the method once status = "raised"
    stdout,           \* lines printed
    requests,         \* every HTTP request issued: kind, page, transport failed
    valid,            \* what is_valid_region returned (None before)
    writes,           \* every file written, with its content
    raw_csv_data,     \* r.text of the export request (None before)
    list_items,       \* list_items of __get_region_info (None outside it)
    region_info,      \* what __get_region_info returned (None before)
    total_pages,
    i,                \* the page number the loop takes next
    dataframes_list,
    tmp_dfs           \* tmp_df of every page parsed so far, in order

vars == <<region, op, pc, status, exit_code, error, stdout, requests, valid,
          writes, raw_csv_data, list_items, region_info, total_pages, i,
          dataframes_list, tmp_dfs>>

\* ------------------------------------------------------------- helpers
SeqsUpTo(S, n) == UNION {[1..k -> S] : k \in 0..n}

Raise(e)  == [raised |-> TRUE, error |-> e]

Return(v) == [raised |-> FALSE, value |-> v]

None == <<>>

Some(v) == <<v>>

\* A request's answer: the transport fails, or a body arrives.
Responses(bodies) ==
    {[failed |-> TRUE]} \cup {[failed |-> FALSE, text |-> b] : b \in bodies}

Request(kind, page, r) == [kind |-> kind, page |-> page, failed |-> r.failed]

\* ------------------------------------------------------------- characters
Digits == <<"0", "1", "2", "3", "4", "5", "6", "7", "8", "9">>

IsDigit(c) == \E d \in 1..10 : Digits[d] = c

DigitValue(c) == (CHOOSE d \in 1..10 : Digits[d] = c) - 1

\* ASCII codes of the characters the model uses
Ord(c) ==
    CASE c = "\n" -> 10
      [] c = "\"" -> 34
      [] c = ","  -> 44
      [] c = "/"  -> 47
      [] IsDigit(c) -> 48 + DigitValue(c)
      [] c = "<"  -> 60
      [] c = ">"  -> 62
      [] c = "A"  -> 65
      [] c = "Z"  -> 90
      [] c = "_"  -> 95
      [] c = "a"  -> 97
      [] c = "e"  -> 101
      [] c = "i"  -> 105
      [] c = "l"  -> 108
      [] c = "x"  -> 120
      [] c = "z"  -> 122

\* ------------------------------------------------------------- region check
Regions == {"whistler", "no-such-place"}

non_existant == "<title>Error</title>"

\* Bodies of the region page, as sequences of markup fragments.
RegionPages ==
    { <<"<title>Error</title>">>,
      <<"<html>", "<title>Error</title>">>,
      <<"<title>Whistler Mountain Biking Trails</title>">> }

\* needle in text
Contains(text, needle) == \E k \in 1..Len(text) : text[k] = needle

\* mutant of is_valid_region: a failed request counts as "no such region"
is_valid_region_swallow(r) ==
    IF r.failed THEN Return(FALSE)
    ELSE IF Contains(r.text, non_existant) THEN Return(FALSE)
    ELSE Return(TRUE)

is_valid_region(r) ==
    IF r.failed THEN Raise("RequestException")
    ELSE IF Contains(r.text, non_existant) THEN Return(FALSE)
    ELSE Return(TRUE)

InvalidMessage(rgn) == <<"[!] ", rgn, " is not a valid Trailforks Region.">>

\* mutant of check_region: the exit(1) is missing
check_region_no_exit(is_valid, rgn) ==
    IF ~is_valid
    THEN [printed |-> <<InvalidMessage(rgn)>>, exits |-> FALSE, code |-> 0]
    ELSE [printed |-> <<>>, exits |-> FALSE, code |-> 0]

\* what check_region does once is_valid_region has returned is_valid
check_region(is_valid, rgn) ==
    IF ~is_valid
    THEN [printed |-> <<InvalidMessage(rgn)>>, exits |-> TRUE, code |-> 1]
    ELSE [printed |-> <<>>, exits |-> FALSE, code |-> 0]

\* ------------------------------------------------------------- state machine
Init ==
    /\ region \in Regions
    /\ op = "none"
    /\ pc = "idle"
    /\ status = "running"
    /\ exit_code = 0
    /\ error = "none"
    /\ stdout = <<>>
    /\ requests = <<>>
    /\ valid = None
    /\ writes = <<>>
    /\ raw_csv_data = None
    /\ list_items = None
    /\ region_info = None
    /\ total_pages = 0
    /\ i = 0
    /\ dataframes_list = <<>>
    /\ tmp_dfs = <<>>

CallTrails ==
    /\ pc = "idle"
    /\ op' = "trails"
    /\ pc' = "check_region"
    /\ UNCHANGED <<region, status, exit_code, error, stdout, requests, valid,
                   writes, raw_csv_data, list_items, region_info, total_pages,
                   i, dataframes_list, tmp_dfs>>

CallRidelogs ==
    /\ pc = "idle"
    /\ op' = "ridelogs"
    /\ pc' = "check_region"
    /\ UNCHANGED <<region, status, exit_code, error, stdout, requests, valid,
                   writes, raw_csv_data, list_items, region_info, total_pages,
                   i, dataframes_list, tmp_dfs>>

\* self.check_region(), the first statement of both methods
CheckRegion ==
    /\ pc = "check_region"
    /\ \E r \in Responses(RegionPages) :
         LET v == is_valid_region(r) IN
         /\ requests' = Append(requests, Request("region", 0, r))
         /\ IF v.raised
            THEN /\ status' = "raised"
                 /\ error' = v.error
                 /\ pc' = "done"
                 /\ UNCHANGED <<stdout, exit_code, valid>>
            ELSE LET c == check_region(v.value, region) IN
                 /\ valid' = Some(v.value)
                 /\ stdout' = stdout \o c.printed
                 /\ IF c.exits
                    THEN /\ status' = "exited"
                         /\ exit_code' = c.code
                         /\ pc' = "done"
                    ELSE /\ pc' = IF op = "trails" THEN "export" ELSE "region_info"
                         /\ UNCHANGED <<status, exit_code>>
                 /\ error' = error
    /\ UNCHANGED <<region, op, writes, raw_csv_data, list_items, region_info,
                   total_pages, i, dataframes_list, tmp_dfs>>

\* ------------------------------------------------------------- trail export
\* Characters of the raw export text served.
CsvChars == {"e", "Z", "_", "1", "\n"}

RawTexts == SeqsUpTo(CsvChars, MaxTextLen)

\* the character class [aA-zZ]: 'a', the range 'A'..'z', 'Z'
InClass(c) == Ord(c) = Ord("a") \/ (Ord("A") <= Ord(c) /\ Ord(c) <= Ord("z")) \/ Ord(c) = Ord("Z")

\* the pattern [aA-zZ]\n matches at the head of s
MatchesAt(s) == Len(s) >= 2 /\ InClass(s[1]) /\ s[2] = "\n"

\* re.sub(r'[aA-zZ]\n', "\",", raw_csv_data): every match, left to right,
\* is replaced as a whole by the two characters quote, comma
RECURSIVE re_sub(_)
re_sub(s) ==
    IF s = <<>> THEN <<>>
    ELSE IF MatchesAt(s) THEN <<"\"", ",">> \o re_sub(SubSeq(s, 3, Len(s)))
    ELSE <<s[1]>> \o re_sub(Tail(s))

TrailListing(rgn) == <<rgn, "_trail_listing.csv">>

\* lines 50-55 of download_all_region_trails
Export ==
    /\ pc = "export"
    /\ \E r \in Responses(RawTexts) :
         /\ requests' = Append(requests, Request("export", 0, r))
         /\ IF r.failed
            THEN /\ status' = "raised"
                 /\ error' = "RequestException"
                 /\ UNCHANGED <<raw_csv_data, writes>>
            ELSE /\ raw_csv_data' = Some(r.text)
                 /\ writes' = Append(writes, [file |-> TrailListing(region),
                                              content |-> re_sub(r.text)])
                 /\ status' = "returned"
                 /\ error' = error
    /\ pc' = "done"
    /\ UNCHANGED <<region, op, exit_code, stdout, valid, list_items,
                   region_info, total_pages, i, dataframes_list, tmp_dfs>>

\* ------------------------------------------------------------- region info
\* Displayed texts of the <li> items the statistics page may hold.
ItemTexts ==
    { <<"1", "5">>, <<"4", "4">>, <<"7", ",", "5">>, <<"x">>, <<"7", "x">> }

\* Bodies of the statistics page: whether the div "col-2 center" is there,
\* and the <li> items inside it.
StatsPages ==
    {[container |-> FALSE, items |-> <<>>]}
        \cup {[container |-> TRUE, items |-> s] : s \in SeqsUpTo(ItemTexts, MaxItems)}

\* str(item) of a <li> holding `text`
ItemStr(text) == <<"<", "l", "i", ">">> \o text \o <<"<", "/", "l", "i", ">">>

\* re.search(r'>([0-9].*)<', s).groups()[0]: the leftmost '>' that a digit
\* follows, then as far as the last '<' that no line break separates from it.
\* None when nothing matches.
re_search(s) ==
    LET ends(p) == {q \in (p + 2)..Len(s) :
                       /\ s[q] = "<"
                       /\ \A j \in (p + 2)..(q - 1) : s[j] # "\n"}
        starts == {p \in 1..(Len(s) - 1) :
                       s[p] = ">" /\ IsDigit(s[p + 1]) /\ ends(p) # {}}
    IN  IF starts = {} THEN None
        ELSE LET p == CHOOSE a \in starts : \A b \in starts : a <= b
                 q == CHOOSE a \in ends(p) : \A b \in ends(p) : b <= a
             IN  Some(SubSeq(s, p + 1, q - 1))

\* s.replace(",", "")
replace_commas(s) == SelectSeq(s, LAMBDA c : c # ",")

RECURSIVE DecimalValue(_)
DecimalValue(s) ==
    IF s = <<>> THEN 0
    ELSE 10 * DecimalValue(SubSeq(s, 1, Len(s) - 1)) + DigitValue(s[Len(s)])

\* int(s) of a text of the model's characters
py_int(s) ==
    IF s = <<>> \/ \E k \in 1..Len(s) : ~IsDigit(s[k])
    THEN Raise("ValueError")
    ELSE Return(DecimalValue(s))

region_vars ==
    <<"total_ridelogs", "unique_riders", "trails_ridden", "average_trails_per_ride">>

EmptyRegionInfo ==
    [total_ridelogs |-> None, unique_riders |-> None, trails_ridden |-> None,
     average_trails_per_ride |-> None]

\* the loop over enumerate(list_items), from item k on; in the assignment
\* the right-hand side is evaluated before region_vars[i]
RECURSIVE fill_region_info(_, _, _)
fill_region_info(items, k, info) ==
    IF k > Len(items) THEN Return(info)
    ELSE LET m == re_search(ItemStr(items[k])) IN
         IF m = None THEN Raise("AttributeError")
         ELSE LET n == py_int(replace_commas(m[1])) IN
              IF n.raised THEN n
              ELSE IF k > Len(region_vars) THEN Raise("IndexError")
              ELSE fill_region_info(items, k + 1,
                       [info EXCEPT ![region_vars[k]] = Some(n.value)])

\* __get_region_info on the answer r of the statistics request
get_region_info(r) ==
    IF r.failed THEN Raise("RequestException")
    ELSE IF ~r.text.container THEN Raise("IndexError")
    ELSE fill_region_info(r.text.items, 1, EmptyRegionInfo)

\* line 71 of download_all_region_ridelogs
GetRegionInfo ==
    /\ pc = "region_info"
    /\ \E r \in Responses(StatsPages) :
         LET v == get_region_info(r) IN
         /\ requests' = Append(requests, Request("stats", 0, r))
         /\ list_items' = IF ~r.failed /\ r.text.container
                          THEN Some(r.text.items) ELSE None
         /\ IF v.raised
            THEN /\ status' = "raised"
                 /\ error' = v.error
                 /\ pc' = "done"
                 /\ UNCHANGED region_info
            ELSE /\ region_info' = Some(v.value)
                 /\ pc' = "total_pages"
                 /\ UNCHANGED <<status, error>>
    /\ UNCHANGED <<region, op, exit_code, stdout, valid, writes, raw_csv_data,
                   total_pages, i, dataframes_list, tmp_dfs>>

\* ------------------------------------------------------------- ride-log crawl
\* mutant of py_round: the ceiling
py_round_ceiling(n, d) == IF n % d = 0 THEN n \div d ELSE (n \div d) + 1

\* round(n / d) of Python 3 for integers n >= 0, d > 0: to the nearest
\* integer, a tie going to the even one
py_round(n, d) ==
    LET q == n \div d
        r == n % d
    IN  IF 2 * r < d THEN q
        ELSE IF 2 * r > d THEN q + 1
        ELSE IF q % 2 = 0 THEN q ELSE q + 1

\* mutant of range_stop: one page too many
range_stop_plus_one(pages) == pages + 2

\* the exclusive stop of range(1, total_pages + 1)
range_stop(pages) == pages + 1

\* lines 72-75; region_info is read here for the last time, so the model
\* lets it (and the locals of __get_region_info) go
ComputePages ==
    /\ pc = "total_pages"
    /\ LET n == region_info[1].total_ridelogs IN
       IF n = None
       THEN /\ status' = "raised"
            /\ error' = "TypeError"
            /\ pc' = "done"
            /\ UNCHANGED <<total_pages, i, dataframes_list, list_items, region_info>>
       ELSE /\ total_pages' = py_round(n[1], PageSize)
            /\ dataframes_list' = <<>>
            /\ i' = 1
            /\ pc' = "loop"
            /\ list_items' = None
            /\ region_info' = None
            /\ UNCHANGED <<status, error>>
    /\ UNCHANGED <<region, op, exit_code, stdout, requests, valid, writes,
                   raw_csv_data, tmp_dfs>>

\* Column sets a scraped table may have.
ColumnSets == {{"rider", "date"}, {"city", "rider"}}

\* Table t of page p with n rows, tagged with where it came from; a row
\* carries the table's own index label and its data.
Table(p, t, cols, n) ==
    [page |-> p, table |-> t, columns |-> cols,
     rows |-> [j \in 1..n |-> [index |-> j - 1,
                               data |-> [page |-> p, table |-> t, row |-> j]]]]

\* Bodies of ride-log page p: the tables pd.read_html finds there.
PageBodies(p) ==
    UNION {{[t \in 1..k |-> Table(p, t, f[t][1], f[t][2])] :
               f \in [1..k -> ColumnSets \X (0..MaxRows)]} : k \in 0..MaxTables}

\* pd.read_html(domain, index_col=None, header=0) on the answer r
read_html(r) ==
    IF r.failed THEN Raise("URLError")
    ELSE IF r.text = <<>> THEN Raise("ValueError")
    ELSE Return(r.text)

\* mutant of good_dfs: the "city" test also applied to a lone table
good_dfs_always_filter(tmp_df) ==
    SelectSeq(tmp_df, LAMBDA potential_df : "city" \notin potential_df.columns)

\* mutant of good_dfs: the loop stops at the first table without "city"
good_dfs_first_only(tmp_df) ==
    IF Len(tmp_df) >= 2
    THEN LET sel == SelectSeq(tmp_df,
                        LAMBDA potential_df : "city" \notin potential_df.columns)
         IN  IF sel = <<>> THEN <<>> ELSE <<sel[1]>>
    ELSE <<tmp_df[1]>>

\* lines 82-89: the tables of tmp_df appended to dataframes_list
good_dfs(tmp_df) ==
    IF Len(tmp_df) >= 2
    THEN SelectSeq(tmp_df, LAMBDA potential_df : "city" \notin potential_df.columns)
    ELSE <<tmp_df[1]>>

\* one iteration of the loop, lines 76-94
LoopIter ==
    /\ pc = "loop"
    /\ i < range_stop(total_pages)
    /\ \E r \in Responses(PageBodies(i)) :
         LET v == read_html(r) IN
         /\ requests' = Append(requests, Request("ridelogs", i, r))
         /\ IF v.raised
            THEN /\ pc' = "concat"
                 /\ UNCHANGED <<i, dataframes_list, tmp_dfs>>
            ELSE /\ tmp_dfs' = Append(tmp_dfs, v.value)
                 /\ dataframes_list' = dataframes_list \o good_dfs(v.value)
                 /\ i' = i + 1
                 /\ pc' = pc
    /\ UNCHANGED <<region, op, status, exit_code, error, stdout, valid, writes,
                   raw_csv_data, list_items, region_info, total_pages>>

\* the range is exhausted
LoopExit ==
    /\ pc = "loop"
    /\ ~(i < range_stop(total_pages))
    /\ pc' = "concat"
    /\ UNCHANGED <<region, op, status, exit_code, error, stdout, requests, valid,
                   writes, raw_csv_data, list_items, region_info, total_pages,
                   i, dataframes_list, tmp_dfs>>

\* all rows of the tables of dfs, table after table
RECURSIVE AllRows(_)
AllRows(dfs) ==
    IF dfs = <<>> THEN <<>> ELSE Head(dfs).rows \o AllRows(Tail(dfs))

\* pd.concat(dfs, axis=0, ignore_index=True)
pd_concat(dfs) ==
    IF dfs = <<>> THEN Raise("ValueError")
    ELSE LET rows == AllRows(dfs) IN
         Return([k \in 1..Len(rows) |-> [index |-> k - 1, data |-> rows[k].data]])

ScrapedRiders(rgn) == <<rgn, "_scraped_riders.csv">>

\* lines 95-98
Concat ==
    /\ pc = "concat"
    /\ LET df == pd_concat(dataframes_list) IN
       IF df.raised
       THEN /\ status' = "raised"
            /\ error' = df.error
            /\ UNCHANGED writes
       ELSE /\ writes' = Append(writes, [file |-> ScrapedRiders(region),
                                         content |-> df.value])
            /\ status' = "returned"
            /\ error' = error
    /\ pc' = "done"
    /\ UNCHANGED <<region, op, exit_code, stdout, requests, valid, raw_csv_data,
                   list_items, region_info, total_pages, i, dataframes_list,
                   tmp_dfs>>

Next ==
    \/ CallTrails
    \/ CallRidelogs
    \/ CheckRegion
    \/ Export
    \/ GetRegionInfo
    \/ ComputePages
    \/ LoopIter
    \/ LoopExit
    \/ Concat

Spec == Init /\ [][Next]_vars

\* ------------------------------------------------------------- observations
\* the ride-log page requests issued so far
PageRequests == SelectSeq(requests, LAMBDA q : q.kind = "ridelogs")

\* download_all_region_ridelogs got as far as its loop and has ended
CrawlEnded == op = "ridelogs" /\ pc = "done" /\ i >= 1

\* a ride-log page's fetch or parse raised
PageRaised == Len(PageRequests) > Len(tmp_dfs)

\* how many tables of dataframes_list came from page k
Contributed(k) ==
    Cardinality({j \in 1..Len(dataframes_list) : dataframes_list[j].page = k})

\* positions of the tables of a page that have no column named "city"
WithoutCity(tmp_df) == {t \in 1..Len(tmp_df) : "city" \notin tmp_df[t].columns}

\* the tables of a page at the positions S, in page order, from position t on
RECURSIVE InPageOrder(_, _, _)
InPageOrder(tmp_df, S, t) ==
    IF t > Len(tmp_df) THEN <<>>
    ELSE (IF t \in S THEN <<tmp_df[t]>> ELSE <<>>) \o InPageOrder(tmp_df, S, t + 1)

\* the selection the disambiguation policy prescribes for one page
Selected(tmp_df) ==
    IF Len(tmp_df) > 1
    THEN InPageOrder(tmp_df, WithoutCity(tmp_df), 1)
    ELSE InPageOrder(tmp_df, {1}, 1)

\* the selections of the pages k..Len(pages), page after page
RECURSIVE SelectedFrom(_, _)
SelectedFrom(pages, k) ==
    IF k > Len(pages) THEN <<>>
    ELSE Selected(pages[k]) \o SelectedFrom(pages, k + 1)

\* ------------------------------------------------------------- claims

\* C1: once is_valid_region has returned false, check_region has printed a
\* message containing the region identifier and the process has exited with a
\* non-zero status; no request other than the region probe was or is issued
\* and no file is written in that invocation.
C1_InvalidRegionStops ==
    valid = Some(FALSE) =>
        /\ status = "exited"
        /\ exit_code # 0
        /\ \E k \in 1..Len(stdout) : Contains(stdout[k], region)
        /\ \A k \in 1..Len(requests) : requests[k].kind = "region"
        /\ writes = <<>>

C1_Witness ==
    /\ op = "ridelogs"
    /\ valid = Some(FALSE)
    /\ status = "exited"
    /\ Len(requests) = 1

\* C4 as stated: every successfully parsed page contributes exactly one
\* table to the accumulator, whatever tables it holds.
C4_Original ==
    \A k \in 1..Len(tmp_dfs) : Contributed(k) = 1

\* C4 amended: a page holding exactly one table contributes that one table;
\* a page holding several contributes as many tables as it has tables
\* without a "city" column, so exactly one only when exactly one lacks it.
C4_ContributionCount ==
    \A k \in 1..Len(tmp_dfs) :
        /\ Len(tmp_dfs[k]) = 1 => Contributed(k) = 1
        /\ Len(tmp_dfs[k]) > 1 =>
               Contributed(k) = Cardinality(WithoutCity(tmp_dfs[k]))

C4_Witness ==
    \E k \in 1..Len(tmp_dfs) :
        /\ Len(tmp_dfs[k]) = 2
        /\ WithoutCity(tmp_dfs[k]) = {1, 2}
        /\ Contributed(k) = 2

\* C5: the accumulator holds, page after page, for a page with more than one
\* table exactly its tables without a "city" column in page order, and for a
\* page with exactly one table that table, "city" column or not.
C5_Disambiguation ==
    dataframes_list = SelectedFrom(tmp_dfs, 1)

C5_Witness ==
    /\ Len(tmp_dfs) = 2
    /\ Len(tmp_dfs[1]) = 1
    /\ "city" \in tmp_dfs[1][1].columns
    /\ Len(tmp_dfs[2]) = 2
    /\ WithoutCity(tmp_dfs[2]) = {2}
    /\ Len(dataframes_list) = 2
    /\ dataframes_list[1] = tmp_dfs[1][1]
    /\ dataframes_list[2] = tmp_dfs[2][2]

\* C9: a transport failure of the region probe, of the statistics request or
\* of the export request leaves the method as an error: the process does not
\* exit, nothing is printed, the region is not taken for invalid and no file
\* is written; the method raises a transport error only then.  A transport
\* failure of a ride-log page request is caught: it ends the crawl, no page
\* is requested after it, and it is not the error the method may end with.
C9_TransportFailures ==
    /\ \A k \in 1..Len(requests) :
          requests[k].failed =>
              /\ k = Len(requests)
              /\ IF requests[k].kind = "ridelogs"
                 THEN /\ pc \in {"concat", "done"}
                      /\ error \notin {"RequestException", "URLError"}
                 ELSE /\ pc = "done"
                      /\ status = "raised"
                      /\ error = "RequestException"
                      /\ valid # Some(FALSE)
                      /\ stdout = <<>>
                      /\ writes = <<>>
    /\ (status = "raised" /\ error \in {"RequestException", "URLError"}) =>
          /\ requests # <<>>
          /\ requests[Len(requests)].failed
          /\ requests[Len(requests)].kind # "ridelogs"

C9_Witness ==
    /\ Len(requests) = 1
    /\ requests[1].kind = "region"
    /\ requests[1].failed
    /\ status = "raised"

\* the data of the rows of the given tables, table after table
RECURSIVE RowData(_)
RowData(tables) ==
    IF tables = <<>> THEN <<>>
    ELSE [j \in 1..Len(Head(tables).rows) |-> Head(tables).rows[j].data]
             \o RowData(Tail(tables))

\* the given row data under a fresh index 0..n-1
Reindexed(data) == [k \in 1..Len(data) |-> [index |-> k - 1, data |-> data[k]]]

\* the consolidated table the pages parsed so far call for
ExpectedTable == Reindexed(RowData(SelectedFrom(tmp_dfs, 1)))

\* C2 as stated: when a page's fetch or parse raises, no later page is
\* requested, the tables accumulated before it are written to the output
\* CSV, and the method returns without an error.
C2_Original ==
    (CrawlEnded /\ PageRaised) =>
        /\ Len(PageRequests) = Len(tmp_dfs) + 1
        /\ status = "returned"
        /\ Len(writes) = 1
        /\ writes[1].file = ScrapedRiders(region)
        /\ writes[1].content = Reindexed(RowData(dataframes_list))

\* What the code does keep of C2: the loop stops at the page that raised,
\* and the accumulated tables are written unless there are none.
PartialResultKeptUnlessEmpty ==
    (CrawlEnded /\ PageRaised) =>
        /\ Len(PageRequests) = Len(tmp_dfs) + 1
        /\ IF dataframes_list = <<>>
           THEN status = "raised" /\ error = "ValueError" /\ writes = <<>>
           ELSE /\ status = "returned"
                /\ Len(writes) = 1
                /\ writes[1].content = Reindexed(RowData(dataframes_list))

\* C3 as stated: at the end of every crawl the consolidated table written
\* consists of exactly the rows of the selected tables of the pages before
\* the first failing one, by page and then in-page order, under a fresh
\* index 0..n-1, with no row of the failing page or a later one.
C3_Original ==
    CrawlEnded =>
        /\ Len(writes) = 1
        /\ writes[1].file = ScrapedRiders(region)
        /\ writes[1].content = ExpectedTable

\* What the code does keep of C3: a table that is written is exactly the
\* expected one, and none is written only when no table was selected.
WrittenTableIsExact ==
    CrawlEnded =>
        IF SelectedFrom(tmp_dfs, 1) = <<>>
        THEN writes = <<>> /\ status = "raised"
        ELSE Len(writes) = 1 /\ writes[1].content = ExpectedTable

\* C6 as stated: a record returned by __get_region_info has all four fields
\* set, and the extraction fails when fewer than four list items are found.
C6_Original ==
    /\ region_info # None =>
           \A f \in 1..Len(region_vars) : region_info[1][region_vars[f]] # None
    /\ (list_items # None /\ Len(list_items[1]) < Len(region_vars)) =>
           status = "raised"

\* a letter of the alphabet
IsLetter(c) ==
    \/ Ord("A") <= Ord(c) /\ Ord(c) <= Ord("Z")
    \/ Ord("a") <= Ord(c) /\ Ord(c) <= Ord("z")

\* s from position k on, with every line break that follows a letter
\* replaced by quote, comma and everything else kept
RECURSIVE Rejoined(_, _)
Rejoined(s, k) ==
    IF k > Len(s) THEN <<>>
    ELSE (IF s[k] = "\n" /\ k > 1 /\ IsLetter(s[k - 1])
          THEN <<"\"", ",">> ELSE <<s[k]>>) \o Rejoined(s, k + 1)

\* C7 as stated: the file written holds the raw export text with exactly the
\* line breaks that follow a letter replaced by quote, comma: the letter is
\* preserved and every other line break is left unchanged.
C7_Original ==
    (op = "trails" /\ status = "returned") =>
        /\ Len(writes) = 1
        /\ writes[1].file = TrailListing(region)
        /\ writes[1].content = Rejoined(raw_csv_data[1], 1)

\* What the code does write: re.sub's result, unchanged.
WrittenTextIsSubstituted ==
    (op = "trails" /\ status = "returned") =>
        /\ Len(writes) = 1
        /\ writes[1].content = re_sub(raw_csv_data[1])

\* total_pages is an integer nearest to total_ridelogs / 30
C8_Step ==
    (pc = "total_pages" /\ pc' = "loop") =>
        LET n == region_info[1].total_ridelogs[1]
            d == PageSize * total_pages' - n
        IN  /\ total_pages' >= 0
            /\ 2 * d <= PageSize
            /\ 2 * (0 - d) <= PageSize

\* a crawl in which no page raised requested the pages 1..total_pages
C8_Requests ==
    (op = "ridelogs" /\ i >= 1 /\ pc \in {"concat", "done"} /\ ~PageRaised) =>
        /\ Len(PageRequests) = total_pages
        /\ \A k \in 1..Len(PageRequests) : PageRequests[k].page = k

\* C8: total_pages is total_ridelogs / 30 rounded to a nearest integer, not
\* the ceiling, and a crawl in which no page fails requests exactly the page
\* numbers 1..total_pages.
C8_TotalPages == [][C8_Step]_vars /\ []C8_Requests

C8_Witness ==
    /\ CrawlEnded
    /\ total_pages = 2
    /\ ~PageRaised
    /\ Len(PageRequests) = 2
    /\ PageRequests[2].page = 2

C10_Inv ==
    /\ Len(PageRequests) <= total_pages
    /\ \A k \in 1..Len(PageRequests) : PageRequests[k].page = k
    /\ \A k \in 1..(Len(PageRequests) - 1) :
          /\ k <= Len(tmp_dfs)
          /\ Contributed(k) = Len(Selected(tmp_dfs[k]))
    /\ Len(writes) <= 1
    /\ writes # <<>> => pc = "done"
    /\ pc = "done" \/ ENABLED Next

\* how far the invoked method has got
Rank(at) ==
    CASE at = "idle" -> 0
      [] at = "check_region" -> 1
      [] at \in {"export", "region_info"} -> 2
      [] at = "total_pages" -> 3
      [] at = "loop" -> 4
      [] at = "concat" -> 5
      [] at = "done" -> 6

C10_Step ==
    /\ requests' # requests =>
           /\ Len(requests') = Len(requests) + 1
           /\ writes = <<>>
           /\ op = "ridelogs" => writes' = <<>>
    /\ \/ Rank(pc') > Rank(pc)
       \/ /\ pc = "loop"
          /\ pc' = "loop"
          /\ Len(PageRequests') = Len(PageRequests) + 1

\* C10: the pages requested are 1, 2, ..., k in this order, each once, with
\* k <= total_pages; the tables selected from a page are in the accumulator
\* before the next page is requested; the output CSV is written at most once
\* and no request follows it; and the crawl ends: short of its end the method
\* can always take a step, and every step either moves it on or requests one
\* more of the at most total_pages pages.
C10_Sequential == []C10_Inv /\ [][C10_Step]_vars

C10_Witness ==
    /\ CrawlEnded
    /\ Len(PageRequests) = 2
    /\ Len(tmp_dfs) = 1
    /\ Contributed(1) = 1
    /\ Len(writes) = 1

====
